---- MODULE Spec2Model ----
(***************************************************************************)
(* fls: Floyd-Steinberg dithering of a decoded image to the two-colour     *)
(* palette [white, black], with an optional nearest-neighbour rescale      *)
(* before it (src/cmd/fls.go, rootCmd.Run).                                *)
(*                                                                         *)
(* A colour is the 4-tuple <<r, g, b, a>> of 16-bit values that Go's       *)
(* color.Color.RGBA() returns.  A scale factor is the rational n/d with d  *)
(* a power of two, so that float32(Dx)*scale is computed exactly; NaN and  *)
(* infinite scales are left out.                                           *)
(*                                                                         *)
(* rootCmd.Run is a thin wrapper: the calls it makes into image,           *)
(* image/draw, image/png and golang.org/x/image/draw (image.Rect,          *)
(* NearestNeighbor.Scale, FloydSteinberg.Draw with its clip and            *)
(* drawPaletted, png.Encode) are modelled here by what those packages do,  *)
(* at the line of fls.go that calls them.                                  *)
(***************************************************************************)
EXTENDS Integers, Sequences, FiniteSets, TLC

\* Largest number of pixels of a decoded input image.
MaxPixels == 4

\* A nil image (no image allocated yet).
Nil == [nil |-> TRUE]

----------------------------------------------------------------------------
(* image.Point, image.Rectangle *)

Pt(px, py) == [X |-> px, Y |-> py]

ZP == Pt(0, 0)

ZR == [Min |-> ZP, Max |-> ZP]

Min2(a, b) == IF a < b THEN a ELSE b

Max2(a, b) == IF a > b THEN a ELSE b

\* image.Rect: the corners are put in canonical order.
Rect(x0, y0, x1, y1) ==
    [Min |-> Pt(Min2(x0, x1), Min2(y0, y1)), Max |-> Pt(Max2(x0, x1), Max2(y0, y1))]

Dx(rc) == rc.Max.X - rc.Min.X

Dy(rc) == rc.Max.Y - rc.Min.Y

Empty(rc) == rc.Min.X >= rc.Max.X \/ rc.Min.Y >= rc.Max.Y

AddPt(p, q) == Pt(p.X + q.X, p.Y + q.Y)

SubPt(p, q) == Pt(p.X - q.X, p.Y - q.Y)

AddRect(rc, p) == [Min |-> AddPt(rc.Min, p), Max |-> AddPt(rc.Max, p)]

\* Rectangle.Intersect: the empty intersection is the zero rectangle.
Intersect(rc, s) ==
    LET i == [Min |-> Pt(Max2(rc.Min.X, s.Min.X), Max2(rc.Min.Y, s.Min.Y)),
              Max |-> Pt(Min2(rc.Max.X, s.Max.X), Min2(rc.Max.Y, s.Max.Y))]
    IN  IF Empty(i) THEN ZR ELSE i

\* The points of a rectangle (Min inclusive, Max exclusive).
Points(rc) ==
    {Pt(px, py) : px \in rc.Min.X .. (rc.Max.X - 1), py \in rc.Min.Y .. (rc.Max.Y - 1)}

----------------------------------------------------------------------------
(* Colours *)

White == <<65535, 65535, 65535, 65535>>

Black == <<0, 0, 0, 65535>>

\* An opaque 16-bit grey (a Gray16 PNG sample) just below the midpoint.
Mid == <<32767, 32767, 32767, 65535>>

\* The colours an input pixel takes.
Colors == {White, Black, Mid}

\* A palette with a third entry.
paletteThree == <<White, Black, Mid>>

\* color.Palette{color.White, color.Black}
palette == <<White, Black>>

\* Go's integer division truncates toward zero.
Quo(a, b) == IF a >= 0 THEN a \div b ELSE -((-a) \div b)

Abs(a) == IF a >= 0 THEN a ELSE -a

----------------------------------------------------------------------------
(* Inputs *)

\* The scale flag, as a rational n/d.
Scales ==
    {[n |-> -1, d |-> 1], [n |-> 0, d |-> 1], [n |-> 1, d |-> 2],
     [n |-> 1, d |-> 1], [n |-> 3, d |-> 2], [n |-> 2, d |-> 1]}

\* filepath.Ext(path): the two decoded formats and an unsupported one.
Exts == {".png", ".jpg", ".jpeg", ".txt"}

\* The images an input file decodes to: png.Decode and jpeg.Decode return
\* an image whose bounds start at (0,0) and are at least 1x1.
Images ==
    UNION {{[Rect |-> Rect(0, 0, wh[1], wh[2]), Pix |-> f] :
               f \in [Points(Rect(0, 0, wh[1], wh[2])) -> Colors]}
           : wh \in {d \in (1..MaxPixels) \X (1..MaxPixels) : d[1] * d[2] <= MaxPixels}}

VARIABLES
    pc,              \* position in rootCmd.Run
    scale,           \* the --scale flag
    data,            \* the image the input file encodes
    decoded,         \* the image returned by png.Decode / jpeg.Decode
    img,             \* the working image
    tmp,             \* the RGBA image allocated by the rescale step
    rect,            \* bounds of the destination
    dst,             \* the paletted destination
    r, sp,           \* drawPaletted: clipped rectangle and source point
    x, y,            \* drawPaletted: loop counters
    quantErrorCurr,  \* drawPaletted: error propagated to the current row
    quantErrorNext,  \* drawPaletted: error propagated to the next row
    outFile          \* the output file: "absent", "empty", "partial", "png"

vars == <<pc, scale, data, decoded, img, tmp, rect, dst, r, sp, x, y,
          quantErrorCurr, quantErrorNext, outFile>>

drawVars == <<r, sp, x, y, quantErrorCurr, quantErrorNext>>

Init ==
    /\ pc = "read"
    /\ scale \in Scales
    /\ data \in Images
    /\ decoded = Nil
    /\ img = Nil
    /\ tmp = Nil
    /\ rect = ZR
    /\ dst = Nil
    /\ r = ZR
    /\ sp = ZP
    /\ x = 0
    /\ y = 0
    /\ quantErrorCurr = <<>>
    /\ quantErrorNext = <<>>
    /\ outFile = "absent"

\* ioutil.ReadFile; log.Fatal on error.
ReadFile ==
    /\ pc = "read"
    /\ \E ok \in BOOLEAN : pc' = IF ok THEN "decode" ELSE "fatal"
    /\ UNCHANGED <<scale, data, decoded, img, tmp, rect, dst, drawVars, outFile>>

\* switch filepath.Ext(path): png.Decode, jpeg.Decode or unsupported.
Decode ==
    /\ pc = "decode"
    /\ \E ext \in Exts, ok \in BOOLEAN :
          IF ext \in {".png", ".jpg", ".jpeg"} /\ ok
          THEN /\ decoded' = data
               /\ img' = data
               /\ pc' = "scale"
          ELSE /\ pc' = "fatal"
               /\ UNCHANGED <<decoded, img>>
    /\ UNCHANGED <<scale, data, tmp, rect, dst, drawVars, outFile>>

----------------------------------------------------------------------------
(* The rescale step *)

\* Rescaling only when enlarging.
NeedsRescaleUp(s) == s.n > s.d

\* scale != 1.
NeedsRescale(s) == s.n # s.d

\* int(float32(n0)*scale): the conversion to int truncates toward zero.
ScaledDim(n0, s) == Quo(n0 * s.n, s.d)

\* image.Rect(0, 0, int(float32(rect.Dx())*scale), int(float32(rect.Dy())*scale))
ScaledRect(rc, s) == Rect(0, 0, ScaledDim(Dx(rc), s), ScaledDim(Dy(rc), s))

\* image.NewRGBA: every pixel is transparent black.
NewRGBA(rc) == [Rect |-> rc, Pix |-> [p \in Points(rc) |-> <<0, 0, 0, 0>>]]

\* A colour written to an *image.RGBA and read back: each channel is stored
\* as uint8(c >> 8) and RGBA() returns that byte times 0x101.
ToRGBA8(c) == [i \in 1..4 |-> (c[i] \div 256) * 257]

\* Sampling at the pixel's corner instead of its centre.
NNSourceCorner(d, sw, dw) == (d * sw) \div dw

\* The source pixel the nearest-neighbour kernel samples for the
\* destination offset d: (2*d + 1) * sw / (2 * dw).
NNSource(d, sw, dw) == ((2 * d + 1) * sw) \div (2 * dw)

\* draw.NearestNeighbor.Scale(dstImg, dr, srcImg, sr, draw.Over, nil) on an
\* opaque source; equal sizes take the Copy path, which maps offsets one
\* to one as NNSource does when sw = dw.
NNScale(dstImg, dr, srcImg, sr) ==
    LET adr == Intersect(dstImg.Rect, dr)
    IN  IF Empty(adr) \/ Empty(sr)
        THEN dstImg
        ELSE [dstImg EXCEPT !.Pix =
                [p \in Points(dstImg.Rect) |->
                    IF p \in Points(adr)
                    THEN LET sx == NNSource(p.X - dr.Min.X, Dx(sr), Dx(dr))
                             sy == NNSource(p.Y - dr.Min.Y, Dy(sr), Dy(dr))
                         IN  ToRGBA8(srcImg.Pix[Pt(sr.Min.X + sx, sr.Min.Y + sy)])
                    ELSE dstImg.Pix[p]]]

\* rect := img.Bounds(); if scale != 1. { rect = ...; tmp := NewRGBA(rect);
\* NearestNeighbor.Scale(tmp, rect, img, img.Bounds(), ...); img = tmp }
Resize ==
    /\ pc = "scale"
    /\ IF NeedsRescale(scale)
       THEN LET nr == ScaledRect(img.Rect, scale)
                t  == NNScale(NewRGBA(nr), nr, img, img.Rect)
            IN  /\ rect' = nr
                /\ tmp' = t
                /\ img' = t
       ELSE /\ rect' = img.Rect
            /\ UNCHANGED <<tmp, img>>
    /\ pc' = "draw"
    /\ UNCHANGED <<scale, data, decoded, dst, drawVars, outFile>>

----------------------------------------------------------------------------
(* uint32 arithmetic, a value being the pair <<high 16 bits, low 16 bits>> *)

U32(v) == <<v \div 65536, v % 65536>>

MaxU32 == <<65535, 65535>>

AddU32(a, b) ==
    LET lo == a[2] + b[2]
        hi == a[1] + b[1] + (lo \div 65536)
    IN  <<hi % 65536, lo % 65536>>

LessU32(a, b) == a[1] < b[1] \/ (a[1] = b[1] /\ a[2] < b[2])

----------------------------------------------------------------------------
(* draw.FloydSteinberg.Draw: clip, then drawPaletted with error diffusion *)

\* image.NewPaletted: every pixel holds index 0.
NewPaletted(rc, pal) ==
    [Rect |-> rc, Pix |-> [p \in Points(rc) |-> 0], Palette |-> pal]

\* clip: the rectangle drawn, after intersecting it with the bounds of dst
\* and with the bounds of src translated by orig - sp.
ClipRect(dstRect, r0, srcRect, sp0) ==
    Intersect(Intersect(r0, dstRect), AddRect(srcRect, SubPt(r0.Min, sp0)))

\* clip: the source point moves by as much as the rectangle's corner did.
ClipPoint(dstRect, r0, srcRect, sp0) ==
    AddPt(sp0, SubPt(ClipRect(dstRect, r0, srcRect, sp0).Min, r0.Min))

\* clamp: to the range [0, 0xffff].
clamp(i) == IF i < 0 THEN 0 ELSE IF i > 65535 THEN 65535 ELSE i

\* sqDiff: d := uint32(a - b); (d * d) >> 2.  With |a - b| = 2q + c <= 0xffff
\* the product does not wrap and its quarter is q*q + q*c.
sqDiff(a, b) ==
    LET k == Abs(a - b)
        q == k \div 2
    IN  U32(q * q + q * (k % 2))

\* sum := sqDiff(er, p[0]) + sqDiff(eg, p[1]) + sqDiff(eb, p[2]) + sqDiff(ea, p[3])
SumSqDiff(e, p) ==
    AddU32(AddU32(AddU32(sqDiff(e[1], p[1]), sqDiff(e[2], p[2])), sqDiff(e[3], p[3])),
           sqDiff(e[4], p[4]))

\* The pixel's colour plus the error propagated to it: clamp(c + q/16).
Effective(c, q) == [i \in 1..4 |-> clamp(c[i] + Quo(q[i], 16))]

\* The comparison the wrong way round.
CloserInverted(sum, bestSum) == LessU32(bestSum, sum)

\* if sum < bestSum
Closer(sum, bestSum) == LessU32(sum, bestSum)

\* for index, p := range palette { ... }: the scan for the closest entry,
\* from entry `index` (counted from 0) on.
RECURSIVE BestLoop(_, _, _, _, _)
BestLoop(pal, e, index, bestIndex, bestSum) ==
    IF index = Len(pal)
    THEN bestIndex
    ELSE LET sum == SumSqDiff(e, pal[index + 1])
         IN  IF Closer(sum, bestSum)
             THEN IF sum = U32(0)
                  THEN index
                  ELSE BestLoop(pal, e, index + 1, index, sum)
             ELSE BestLoop(pal, e, index + 1, bestIndex, bestSum)

\* bestIndex, bestSum := 0, uint32(1<<32-1)
BestIndex(pal, e) == BestLoop(pal, e, 0, 0, MaxU32)

\* er -= palette[bestIndex][0], ...
QuantError(pal, e, best) == [i \in 1..4 |-> e[i] - pal[best + 1][i]]

\* The weights of below-left and below exchanged.
PropagateNextSwapped(next, x0, e) ==
    [i \in DOMAIN next |->
        IF i = x0 THEN [c \in 1..4 |-> next[i][c] + e[c] * 5]
        ELSE IF i = x0 + 1 THEN [c \in 1..4 |-> next[i][c] + e[c] * 3]
        ELSE IF i = x0 + 2 THEN [c \in 1..4 |-> next[i][c] + e[c] * 1]
        ELSE next[i]]

\* quantErrorNext[x+0] += e*3; quantErrorNext[x+1] += e*5; quantErrorNext[x+2] += e*1
PropagateNext(next, x0, e) ==
    [i \in DOMAIN next |->
        IF i = x0 THEN [c \in 1..4 |-> next[i][c] + e[c] * 3]
        ELSE IF i = x0 + 1 THEN [c \in 1..4 |-> next[i][c] + e[c] * 5]
        ELSE IF i = x0 + 2 THEN [c \in 1..4 |-> next[i][c] + e[c] * 1]
        ELSE next[i]]

\* quantErrorCurr[x+2] += e*7
PropagateCurr(curr, x0, e) ==
    [i \in DOMAIN curr |->
        IF i = x0 + 2 THEN [c \in 1..4 |-> curr[i][c] + e[c] * 7] ELSE curr[i]]

\* make([][4]int32, r.Dx()+2)
ZeroErrors(w) == [i \in 0..(w + 1) |-> <<0, 0, 0, 0>>]

\* dst := image.NewPaletted(rect, palette);
\* draw.FloydSteinberg.Draw(dst, img.Bounds(), img, image.Point{}) up to its
\* loop: clip, return if nothing is left to draw, allocate the error rows.
DrawBegin ==
    /\ pc = "draw"
    /\ dst' = NewPaletted(rect, palette)
    /\ r' = ClipRect(rect, img.Rect, img.Rect, ZP)
    /\ sp' = ClipPoint(rect, img.Rect, img.Rect, ZP)
    /\ x' = 0
    /\ y' = 0
    /\ IF Empty(r')
       THEN /\ pc' = "create"
            /\ UNCHANGED <<quantErrorCurr, quantErrorNext>>
       ELSE /\ pc' = "dither"
            /\ quantErrorCurr' = ZeroErrors(Dx(r'))
            /\ quantErrorNext' = ZeroErrors(Dx(r'))
    /\ UNCHANGED <<scale, data, decoded, img, tmp, rect, outFile>>

\* The body of the inner loop for the pixel at offset (x, y).
DitherPixel ==
    /\ pc = "dither"
    /\ x # Dx(r)
    /\ LET e    == Effective(img.Pix[Pt(sp.X + x, sp.Y + y)], quantErrorCurr[x + 1])
           best == BestIndex(dst.Palette, e)
           qe   == QuantError(dst.Palette, e, best)
       IN  /\ dst' = [dst EXCEPT !.Pix[Pt(r.Min.X + x, r.Min.Y + y)] = best]
           /\ quantErrorNext' = PropagateNext(quantErrorNext, x, qe)
           /\ quantErrorCurr' = PropagateCurr(quantErrorCurr, x, qe)
    /\ x' = x + 1
    /\ UNCHANGED <<pc, scale, data, decoded, img, tmp, rect, r, sp, y, outFile>>

\* End of a row: recycle the error rows and go to the next row, or leave
\* the outer loop after the last one.
NextRow ==
    /\ pc = "dither"
    /\ x = Dx(r)
    /\ quantErrorCurr' = quantErrorNext
    /\ quantErrorNext' = ZeroErrors(Dx(r))
    /\ y' = y + 1
    /\ x' = 0
    /\ pc' = IF y + 1 = Dy(r) THEN "create" ELSE "dither"
    /\ UNCHANGED <<scale, data, decoded, img, tmp, rect, dst, r, sp, outFile>>

----------------------------------------------------------------------------
(* Writing the result *)

\* os.Create(outputPath): the file exists and is empty; log.Fatal on error.
Create ==
    /\ pc = "create"
    /\ \E ok \in BOOLEAN :
          IF ok
          THEN /\ outFile' = "empty"
               /\ pc' = "encode"
          ELSE /\ pc' = "fatal"
               /\ UNCHANGED outFile
    /\ UNCHANGED <<scale, data, decoded, img, tmp, rect, dst, drawVars>>

\* png.Encode refuses an image whose width or height is not positive,
\* before it writes anything.
EncodableSize(m) == Dx(m.Rect) > 0 /\ Dy(m.Rect) > 0

\* png.Encode(file, dst); log.Fatal on error.
Encode ==
    /\ pc = "encode"
    /\ IF EncodableSize(dst)
       THEN \E ok \in BOOLEAN :
               IF ok
               THEN /\ outFile' = "png"
                    /\ pc' = "done"
               ELSE /\ outFile' = "partial"
                    /\ pc' = "fatal"
       ELSE /\ pc' = "fatal"
            /\ UNCHANGED outFile
    /\ UNCHANGED <<scale, data, decoded, img, tmp, rect, dst, drawVars>>

Next ==
    \/ ReadFile
    \/ Decode
    \/ Resize
    \/ DrawBegin
    \/ DitherPixel
    \/ NextRow
    \/ Create
    \/ Encode

Spec == Init /\ [][Next]_vars

----------------------------------------------------------------------------
(* Properties *)

\* The run is past the rescale step.
Rescaled == pc \in {"draw", "dither", "create", "encode", "done"} \/ dst # Nil

\* floor(n0 * s) for a non-negative n0 and a positive scale s.
FloorScaled(n0, s) == (n0 * s.n) \div s.d

\* C1: for a positive scale other than 1 the rescaled raster, and the
\* dithered output, are max(1, floor(W*s)) wide and max(1, floor(H*s)) high.
C1_ScaledDimsAtLeastOne ==
    (tmp # Nil /\ scale.n > 0) =>
        /\ Dx(tmp.Rect) = Max2(1, FloorScaled(Dx(decoded.Rect), scale))
        /\ Dy(tmp.Rect) = Max2(1, FloorScaled(Dy(decoded.Rect), scale))
        /\ dst # Nil => (Dx(dst.Rect) = Dx(tmp.Rect) /\ Dy(dst.Rect) = Dy(tmp.Rect))

\* C2: a run with a non-positive scale is rejected before any processing:
\* no rescaled raster is allocated, nothing is dithered, no output is made.
C2_NonPositiveScaleRejected ==
    scale.n <= 0 =>
        /\ tmp = Nil
        /\ dst = Nil
        /\ outFile = "absent"
        /\ pc \notin {"draw", "dither", "create", "encode", "done"}

\* C3: the palette is the pair [white, black] and every pixel of the
\* destination holds index 0 or 1, at every moment of the run.
C3_TwoColourClosure ==
    dst # Nil =>
        /\ dst.Palette = <<White, Black>>
        /\ \A p \in Points(dst.Rect) : dst.Pix[p] \in {0, 1}

C3_Witness ==
    /\ pc = "done"
    /\ \E p, q \in Points(dst.Rect) : dst.Pix[p] = 0 /\ dst.Pix[q] = 1

\* C4: the rescale step runs exactly when the scale is not 1, and before
\* the destination exists; with scale 1 the ditherer gets the decoded
\* raster and the output has the input's width and height.
C4_IdentityScaleSkipsRescale ==
    /\ tmp # Nil => scale.n # scale.d
    /\ Rescaled => (tmp # Nil <=> scale.n # scale.d)
    /\ pc \in {"read", "decode", "scale"} => dst = Nil
    /\ (Rescaled /\ scale.n = scale.d) =>
          /\ img = decoded
          /\ rect = decoded.Rect
          /\ dst # Nil => dst.Rect = decoded.Rect

C4_Witness ==
    /\ pc = "done"
    /\ scale.n = scale.d
    /\ tmp = Nil
    /\ Dx(dst.Rect) = 2
    /\ Dy(dst.Rect) = 2
    /\ dst.Rect = decoded.Rect

\* A step of the inner loop: the pixel at offset (x, y) is quantized.
PixelStep == pc = "dither" /\ x # Dx(r) /\ x' = x + 1

\* The effective colour of the pixel about to be quantized.
CurrentEffective ==
    Effective(img.Pix[Pt(sp.X + x, sp.Y + y)], quantErrorCurr[x + 1])

\* The destination pixel about to be written.
CurrentTarget == Pt(r.Min.X + x, r.Min.Y + y)

\* C5: each quantized pixel gets index 1 (black) when black is strictly
\* closer to its effective colour than white, and index 0 (white)
\* otherwise, a tie included.
C5_NearestEntryWhiteOnTie ==
    [][PixelStep =>
        dst'.Pix[CurrentTarget] =
            IF LessU32(SumSqDiff(CurrentEffective, Black), SumSqDiff(CurrentEffective, White))
            THEN 1 ELSE 0]_vars

C5_Witness ==
    /\ pc = "dither"
    /\ y = 0
    /\ x = 2
    /\ img.Pix[Pt(sp.X, sp.Y)] = Mid
    /\ img.Pix[Pt(sp.X + 1, sp.Y)] = Mid
    /\ dst.Pix[r.Min] = 1
    /\ dst.Pix[Pt(r.Min.X + 1, r.Min.Y)] = 0

\* The Floyd-Steinberg weight of the neighbour at offset (dx, dy).
Weight(dx, dy) ==
    IF dx = 1 /\ dy = 0 THEN 7
    ELSE IF dx = -1 /\ dy = 1 THEN 3
    ELSE IF dx = 0 /\ dy = 1 THEN 5
    ELSE IF dx = 1 /\ dy = 1 THEN 1
    ELSE 0

\* The error of the step: effective colour minus the colour of the stored index.
StepError ==
    [c \in 1..4 |-> CurrentEffective[c] - dst.Palette[dst'.Pix[CurrentTarget] + 1][c]]

\* C6: pixels are quantized in raster-scan order; the error of pixel (x,y)
\* is added, times 7, 3, 5, 1 sixteenths, to (x+1,y), (x-1,y+1), (x,y+1),
\* (x+1,y+1) when they lie in the raster, and to no other pixel of it; a
\* row's pending error is what the previous row left for it.
C6_DiffusionKernelInBounds ==
    [][/\ (pc = "draw" /\ pc' = "dither") => (x' = 0 /\ y' = 0)
       /\ (pc = "dither" /\ pc' = "dither") =>
             \/ x < Dx(r) /\ x' = x + 1 /\ y' = y
             \/ x = Dx(r) /\ x' = 0 /\ y' = y + 1 /\ y' < Dy(r)
       /\ (pc = "dither" /\ pc' = "create") => (x = Dx(r) /\ y + 1 = Dy(r))
       /\ PixelStep =>
             /\ \A p \in Points(dst.Rect) : p # CurrentTarget => dst'.Pix[p] = dst.Pix[p]
             /\ \A i \in 0 .. (Dx(r) - 1) :
                   /\ quantErrorCurr'[i + 1] =
                         [c \in 1..4 |-> quantErrorCurr[i + 1][c] + Weight(i - x, 0) * StepError[c]]
                   /\ y + 1 < Dy(r) =>
                         quantErrorNext'[i + 1] =
                            [c \in 1..4 |-> quantErrorNext[i + 1][c] + Weight(i - x, 1) * StepError[c]]
       /\ (pc = "dither" /\ x = Dx(r) /\ pc' = "dither") =>
             \A i \in 0 .. (Dx(r) - 1) :
                /\ quantErrorCurr'[i + 1] = quantErrorNext[i + 1]
                /\ quantErrorNext'[i + 1] = <<0, 0, 0, 0>>
      ]_vars

\* Mid-raster, with a share for the out-of-bounds column -1 set aside and
\* error pending for the pixel to the right.
C6_Witness ==
    /\ pc = "dither"
    /\ Dy(r) > 1
    /\ y = 0
    /\ x = 1
    /\ Dx(r) > 1
    /\ quantErrorNext[0] # <<0, 0, 0, 0>>
    /\ quantErrorCurr[2] # <<0, 0, 0, 0>>

\* C7: a raster of pure white and pure black pixels is reproduced: white
\* gives index 0 and black index 1 at every pixel.
C7_PureRasterReproduced ==
    (pc \in {"create", "encode", "done"}
        /\ \A p \in Points(img.Rect) : img.Pix[p] \in {White, Black}) =>
            \A p \in Points(img.Rect) :
                /\ p \in Points(dst.Rect)
                /\ dst.Pix[p] = IF img.Pix[p] = White THEN 0 ELSE 1

\* C8, as claimed: destination pixel (xd,yd) holds, unchanged, the source
\* pixel at (min(W-1, floor(xd/s)), min(H-1, floor(yd/s))).
C8_FloorInverseMapping ==
    (tmp # Nil /\ scale.n > 0) =>
        /\ decoded = data
        /\ \A p \in Points(tmp.Rect) :
              tmp.Pix[p] =
                 decoded.Pix[Pt(Min2(Dx(decoded.Rect) - 1, (p.X * scale.d) \div scale.n),
                                Min2(Dy(decoded.Rect) - 1, (p.Y * scale.d) \div scale.n))]

\* C8, amended: destination pixel (xd,yd) of the Wd x Hd destination holds
\* the source pixel at (floor((2xd+1)W / 2Wd), floor((2yd+1)H / 2Hd)), each
\* channel cut to its high 8 bits; the source raster is not modified.
C8_CentreSampledMapping ==
    (tmp # Nil /\ scale.n > 0) =>
        /\ decoded = data
        /\ \A p \in Points(tmp.Rect) :
              LET q == Pt(((2 * p.X + 1) * Dx(decoded.Rect)) \div (2 * Dx(tmp.Rect)),
                          ((2 * p.Y + 1) * Dy(decoded.Rect)) \div (2 * Dy(tmp.Rect)))
              IN  /\ q \in Points(decoded.Rect)
                  /\ tmp.Pix[p] = [c \in 1..4 |-> (decoded.Pix[q][c] \div 256) * 257]

C8_Witness ==
    /\ tmp # Nil
    /\ scale = [n |-> 1, d |-> 2]
    /\ Dx(decoded.Rect) = 2
    /\ Dx(tmp.Rect) = 1
    /\ Dy(tmp.Rect) = 1
    /\ decoded.Pix[Pt(0, 0)] = White
    /\ decoded.Pix[Pt(1, 0)] = Mid
    /\ tmp.Pix[Pt(0, 0)] = <<32639, 32639, 32639, 65535>>

\* C9: a failure at any step leaves no output file: after the run an
\* output file exists only if every step succeeded.
C9_OutputOnlyOnSuccess ==
    (pc \in {"done", "fatal"} /\ outFile # "absent") => pc = "done"

\* C10: the destination has the bounds of the working image and each of
\* its pixels (x,y) is quantized from the working image's pixel (x,y).
C10_SameCoordinateQuantized ==
    dst # Nil =>
        /\ dst.Rect = img.Rect
        /\ \A p \in Points(img.Rect) :
              /\ p \in Points(r)
              /\ AddPt(sp, SubPt(p, r.Min)) = p

====
